---- MODULE Spec2Model ----
(***************************************************************************)
(* ReactBingo (src/src/App.tsx): a single-player bingo board.  The state   *)
(* of the App component is the board `squares` (a Map keyed by square      *)
(* value), the set `drawHistory`, and the prop `dimension`.  The two event *)
(* handlers are `draw` and `resetGame`; each runs to completion and its    *)
(* state updates are committed together by React.                          *)
(***************************************************************************)
EXTENDS Integers, Sequences, FiniteSets, TLC

\* Number of outcomes of the random sort explored per column (see Shuffle).
MaxSeed == 6

VARIABLES
  dimension,    \* the `dimension` prop of App, fixed for the component's life
  squares,      \* the board: a Map from square value to Square
  drawHistory,  \* the Set of numbers drawn so far
  lastEvent,    \* history: the handler that produced this state
  successfulDraws  \* history: draws since the last reset that got past the early return

vars == <<dimension, squares, drawHistory, lastEvent, successfulDraws>>

-----------------------------------------------------------------------------
(* JavaScript Map and Array helpers *)

\* Map.prototype.set: add or overwrite one entry.
MapSet(map, key, val) ==
  [k \in (DOMAIN map) \cup {key} |-> IF k = key THEN val ELSE map[k]]

\* Array.prototype.splice(i, 1) on a 1-based sequence: the array without entry i.
RemoveAt(arr, i) ==
  [j \in 1..(Len(arr) - 1) |-> IF j < i THEN arr[j] ELSE arr[j + 1]]

Min(S) == CHOOSE x \in S : \A y \in S : x <= y

\* Array.from(map.values()).  The entries are listed by ascending key; the
\* code only filters, counts and iterates this array, so the iteration order
\* of the Map does not influence any result.
RECURSIVE ValuesFrom(_, _)
ValuesFrom(map, keys) ==
  IF keys = {} THEN << >>
  ELSE LET k == Min(keys) IN <<map[k]>> \o ValuesFrom(map, keys \ {k})

MapValues(map) == ValuesFrom(map, DOMAIN map)

-----------------------------------------------------------------------------
(* buildSquaresMap *)

\* Variant of columnRange: the array is one entry too long.
columnRange_oneTooMany(dim, delta) == [j \in 1..((dim * 3) + 1) |-> delta + (j - 1)]

\* Array.from({length: dimension * 3}, (_, j) => delta + j)
columnRange(dim, delta) == [j \in 1..(dim * 3) |-> delta + (j - 1)]

\* Variant of columnDelta: the column minimum ignores the dimension.
columnDelta_noDimension(dim, columnIndex) == (columnIndex * 3) + 1

\* delta = (columnIndex * dimension * 3) + 1, the value minimum of a column
columnDelta(dim, columnIndex) == (columnIndex * dim * 3) + 1

\* tmpArray.sort(() => Math.random() - 0.5): the comparator is random, so
\* the array may be left in any permutation.  Permutations are enumerated by
\* a seed read as a Lehmer code (least significant digit first): seed % n
\* selects the first element, the quotient orders the rest.
RECURSIVE Shuffle(_, _)
Shuffle(arr, seed) ==
  IF Len(arr) = 0 THEN << >>
  ELSE LET n == Len(arr)
           i == (seed % n) + 1
       IN  <<arr[i]>> \o Shuffle(RemoveAt(arr, i), seed \div n)

Seeds == 0..(MaxSeed - 1)

\* tmpArray.forEach((squareValue, rowIndex) => returnMap.set(...)), from rowIndex on
RECURSIVE insertColumn(_, _, _, _)
insertColumn(returnMap, tmpArray, columnIndex, rowIndex) ==
  IF rowIndex >= Len(tmpArray) THEN returnMap
  ELSE LET squareValue == tmpArray[rowIndex + 1]
       IN  insertColumn(
             MapSet(returnMap, squareValue,
                    [value |-> squareValue, row |-> rowIndex, col |-> columnIndex,
                     inBingo |-> FALSE, drawn |-> FALSE]),
             tmpArray, columnIndex, rowIndex + 1)

\* The body of the column loop of buildSquaresMap, from columnIndex on;
\* seeds[columnIndex] is the outcome of that column's random sort.
RECURSIVE buildColumns(_, _, _, _)
buildColumns(returnMap, dim, columnIndex, seeds) ==
  IF columnIndex >= dim THEN returnMap
  ELSE LET delta    == columnDelta(dim, columnIndex)
           sorted   == Shuffle(columnRange(dim, delta), seeds[columnIndex])
           tmpArray == SubSeq(sorted, 1, dim)
       IN  buildColumns(insertColumn(returnMap, tmpArray, columnIndex, 0),
                        dim, columnIndex + 1, seeds)

buildSquaresMap(dim, seeds) == buildColumns(<< >>, dim, 0, seeds)

\* Every board buildSquaresMap(dim) can return.
Boards(dim) == { buildSquaresMap(dim, seeds) : seeds \in [0..(dim - 1) -> Seeds] }

\* The values of the `dimension` prop explored.  A game of dimension d has
\* 2^(3*d*d) draw histories, so dimension 3 (2^27 per board) is out of reach
\* of an exhaustive search; dimension 2 already has rows, columns and both
\* diagonals as distinct lines.
Dimensions == {1, 2}

BoardsOf == [dim \in Dimensions |-> Boards(dim)]

-----------------------------------------------------------------------------
(* squaresReducer *)

\* Variant of squaresReducer: the "replace" case falls through to "reset",
\* where buildSquaresMap(undefined) returns an empty Map.
squaresReducer_fallThrough(draft, action) ==
  CASE action.type = "replace" -> {<< >>}
    [] action.type = "reset"   -> BoardsOf[action.dimension]

\* Variant of squaresReducer: the "reset" case returns the draft as it is.
squaresReducer_resetKeepsDraft(draft, action) ==
  CASE action.type = "replace" -> {action.newMap}
    [] action.type = "reset"   -> {draft}

\* The set of states the reducer can return (the "reset" case is random).
squaresReducer(draft, action) ==
  CASE action.type = "flagDrawn" ->
         IF action.square \notin DOMAIN draft THEN {draft}
         ELSE {MapSet(draft, action.square, [draft[action.square] EXCEPT !.drawn = TRUE])}
    [] action.type = "flagInBingo" ->
         IF action.square \notin DOMAIN draft THEN {draft}
         ELSE {MapSet(draft, action.square, [draft[action.square] EXCEPT !.inBingo = TRUE])}
    [] action.type = "replace" -> {action.newMap}
    [] action.type = "reset"   -> BoardsOf[action.dimension]

-----------------------------------------------------------------------------
(* Win detection *)

\* Variant of flagAll: the flagged copy is stored under the row of the
\* square instead of its value.
RECURSIVE flagAll_keyedByRow(_, _, _)
flagAll_keyedByRow(accumulator, squaresToCheck, i) ==
  IF i > Len(squaresToCheck) THEN accumulator
  ELSE LET squareData == squaresToCheck[i]
       IN  flagAll_keyedByRow(MapSet(accumulator, squareData.row,
                                     [squareData EXCEPT !.inBingo = TRUE]),
                              squaresToCheck, i + 1)

\* squaresToCheck.forEach(squareData => accumulator.set(...)), from entry i on
RECURSIVE flagAll(_, _, _)
flagAll(accumulator, squaresToCheck, i) ==
  IF i > Len(squaresToCheck) THEN accumulator
  ELSE LET squareData == squaresToCheck[i]
       IN  flagAll(MapSet(accumulator, squareData.value,
                          [squareData EXCEPT !.inBingo = TRUE]),
                   squaresToCheck, i + 1)

\* Variant of checkAndFlagBingo: the threshold is > instead of >=.
checkAndFlagBingo_strict(accumulator, squaresToCheck) ==
  IF Len(squaresToCheck) > dimension
    THEN flagAll(accumulator, squaresToCheck, 1)
    ELSE accumulator

checkAndFlagBingo(accumulator, squaresToCheck) ==
  IF Len(squaresToCheck) >= dimension
    THEN flagAll(accumulator, squaresToCheck, 1)
    ELSE accumulator

\* Variant of drawnInRow: the filter tests the column.
drawnInRow_testsCol(allSquaresArray, i) ==
  SelectSeq(allSquaresArray, LAMBDA squareData : squareData.drawn /\ squareData.col = i)

drawnInRow(allSquaresArray, i) ==
  SelectSeq(allSquaresArray, LAMBDA squareData : squareData.drawn /\ squareData.row = i)

drawnInCol(allSquaresArray, i) ==
  SelectSeq(allSquaresArray, LAMBDA squareData : squareData.drawn /\ squareData.col = i)

drawnInDiagonal(allSquaresArray) ==
  SelectSeq(allSquaresArray,
            LAMBDA squareData : squareData.drawn /\ squareData.row = squareData.col)

\* Variant of drawnInAntiDiagonal: row + col is compared with dimension.
drawnInAntiDiagonal_offByOne(allSquaresArray) ==
  SelectSeq(allSquaresArray,
            LAMBDA squareData : squareData.drawn
                                /\ squareData.row + squareData.col = dimension)

drawnInAntiDiagonal(allSquaresArray) ==
  SelectSeq(allSquaresArray,
            LAMBDA squareData : squareData.drawn
                                /\ squareData.row + squareData.col = dimension - 1)

\* The rows-and-columns loop of checkForBingo, from index i on.
RECURSIVE checkRowsAndCols(_, _, _)
checkRowsAndCols(accumulatorSquares, allSquaresArray, i) ==
  IF i >= dimension THEN accumulatorSquares
  ELSE checkRowsAndCols(
         checkAndFlagBingo(
           checkAndFlagBingo(accumulatorSquares, drawnInRow(allSquaresArray, i)),
           drawnInCol(allSquaresArray, i)),
         allSquaresArray, i + 1)

checkDiagonals(accumulatorSquares, allSquaresArray) ==
  checkAndFlagBingo(
    checkAndFlagBingo(accumulatorSquares, drawnInDiagonal(allSquaresArray)),
    drawnInAntiDiagonal(allSquaresArray))

checkForBingo(accumulatorSquares) ==
  LET allSquaresArray == MapValues(accumulatorSquares)
  IN  checkDiagonals(checkRowsAndCols(accumulatorSquares, allSquaresArray, 0),
                     allSquaresArray)

-----------------------------------------------------------------------------
(* The App component *)

\* Variant of allNumbers: the array is one entry too short.
allNumbers_oneTooFew == [i \in 1..((dimension * dimension * 3) - 1) |-> i]

\* Variant of allNumbers: the numbers start at 0.
allNumbers_zeroBased == [i \in 1..(dimension * dimension * 3) |-> i - 1]

\* Variant of allNumbers: the array is one entry too long.
allNumbers_oneTooMany == [i \in 1..((dimension * dimension * 3) + 1) |-> i]

\* useMemo(() => Array.from({length: dimension * dimension * 3}, (_, i) => i + 1))
allNumbers == [i \in 1..(dimension * dimension * 3) |-> i]

\* Variant of availableRange: the numbers already drawn are not filtered out.
availableRange_unfiltered == allNumbers

\* allNumbers.filter(entry => !drawHistory.has(entry))
availableRange == SelectSeq(allNumbers, LAMBDA entry : entry \notin drawHistory)

\* Variant of markDrawn: the copy starts from an empty Map.
markDrawn_freshMap(randomSquare) ==
  checkForBingo(MapSet(<< >>, randomSquare.value,
                       [randomSquare EXCEPT !.drawn = TRUE]))

\* Variant of markDrawn: the drawn flag of the square is copied, not set.
markDrawn_keepsFlag(randomSquare) ==
  checkForBingo(MapSet(squares, randomSquare.value,
                       [randomSquare EXCEPT !.drawn = randomSquare.drawn]))

\* The board draw() dispatches after picking a number on the board: a copy of squares with
\* that square marked drawn and run through checkForBingo.
markDrawn(randomSquare) ==
  checkForBingo(MapSet(squares, randomSquare.value,
                       [randomSquare EXCEPT !.drawn = TRUE]))

Init ==
  /\ dimension \in Dimensions
  /\ squares \in BoardsOf[dimension]
  /\ drawHistory = {}
  /\ lastEvent = "init"
  /\ successfulDraws = 0

resetGame ==
  /\ squares' \in squaresReducer(squares, [type |-> "reset", dimension |-> dimension])
  /\ drawHistory' = {}
  /\ lastEvent' = "reset"
  /\ successfulDraws' = 0
  /\ UNCHANGED dimension

draw ==
  IF Len(availableRange) = 0
    THEN UNCHANGED vars
    ELSE \E index \in 0..(Len(availableRange) - 1) :
           LET randomNumberWithinAvailableRange == availableRange[index + 1]
               tmpDrawHistory == drawHistory \cup {randomNumberWithinAvailableRange}
           IN  /\ drawHistory' = tmpDrawHistory
               /\ IF randomNumberWithinAvailableRange \in DOMAIN squares
                    THEN squares' \in squaresReducer(squares,
                           [type   |-> "replace",
                            newMap |-> markDrawn(squares[randomNumberWithinAvailableRange])])
                    ELSE UNCHANGED squares
               /\ lastEvent' = "draw"
               /\ successfulDraws' = successfulDraws + 1
               /\ UNCHANGED dimension

Next == draw \/ resetGame

Spec == Init /\ [][Next]_vars

-----------------------------------------------------------------------------
(* draw() on the objects of a render *)

\* The objects the current render holds: the Square records (in ascending
\* key order), the Map `squares` (object 1 of maps, from key to the index of
\* a Square record) and the Set `drawHistory` (object 1 of sets).
renderHeap ==
  [recs |-> MapValues(squares),
   maps |-> << [k \in DOMAIN squares |->
                  Cardinality({j \in DOMAIN squares : j <= k})] >>,
   sets |-> << drawHistory >>]

\* The board an observer reads through Map object mapRef.
heapBoard(heap, mapRef) ==
  [k \in DOMAIN heap.maps[mapRef] |-> heap.recs[heap.maps[mapRef][k]]]

\* new Set(drawHistory): a new Set object with the elements of object `from`
heapNewSet(heap, from) ==
  [heap |-> [heap EXCEPT !.sets = Append(@, @[from])],
   ref  |-> Len(heap.sets) + 1]

\* tmpDrawHistory.add(number): in place
heapSetAdd(heap, setRef, number) ==
  [heap EXCEPT !.sets[setRef] = @ \cup {number}]

\* Variant of heapNewMap: tmpSquares is the Map `from` itself, not a copy.
heapNewMap_alias(heap, from) == [heap |-> heap, ref |-> from]

\* new Map(squares): a new Map object holding the same Square records
heapNewMap(heap, from) ==
  [heap |-> [heap EXCEPT !.maps = Append(@, @[from])],
   ref  |-> Len(heap.maps) + 1]

\* map.set(key, record): in place
heapMapSet(heap, mapRef, key, recRef) ==
  [heap EXCEPT !.maps[mapRef] = MapSet(@, key, recRef)]

\* Variant of heapSpreadDrawn: the record is changed in place.
heapSpreadDrawn_inPlace(heap, recRef) ==
  [heap |-> [heap EXCEPT !.recs[recRef].drawn = TRUE], ref |-> recRef]

\* {...randomSquare, drawn: true}: a new record
heapSpreadDrawn(heap, recRef) ==
  [heap |-> [heap EXCEPT !.recs = Append(@, [@[recRef] EXCEPT !.drawn = TRUE])],
   ref  |-> Len(heap.recs) + 1]

\* {...squareData, inBingo: true}: a new record
heapSpreadInBingo(heap, recRef) ==
  [heap |-> [heap EXCEPT !.recs = Append(@, [@[recRef] EXCEPT !.inBingo = TRUE])],
   ref  |-> Len(heap.recs) + 1]

\* squaresToCheck.forEach(squareData => accumulator.set(...)), from entry i on
RECURSIVE heapFlagAll(_, _, _, _)
heapFlagAll(heap, accumulator, squaresToCheck, i) ==
  IF i > Len(squaresToCheck) THEN heap
  ELSE LET squareData == squaresToCheck[i]
           flagged    == heapSpreadInBingo(heap, squareData)
       IN  heapFlagAll(heapMapSet(flagged.heap, accumulator,
                                  heap.recs[squareData].value, flagged.ref),
                       accumulator, squaresToCheck, i + 1)

heapCheckAndFlagBingo(heap, accumulator, squaresToCheck) ==
  IF Len(squaresToCheck) >= dimension
    THEN heapFlagAll(heap, accumulator, squaresToCheck, 1)
    ELSE heap

\* allSquaresArray.filter(test) over an array of Square objects
heapDrawnInRow(heap, allSquaresArray, i) ==
  SelectSeq(allSquaresArray,
            LAMBDA ref : heap.recs[ref].drawn /\ heap.recs[ref].row = i)

heapDrawnInCol(heap, allSquaresArray, i) ==
  SelectSeq(allSquaresArray,
            LAMBDA ref : heap.recs[ref].drawn /\ heap.recs[ref].col = i)

heapDrawnInDiagonal(heap, allSquaresArray) ==
  SelectSeq(allSquaresArray,
            LAMBDA ref : heap.recs[ref].drawn
                         /\ heap.recs[ref].row = heap.recs[ref].col)

heapDrawnInAntiDiagonal(heap, allSquaresArray) ==
  SelectSeq(allSquaresArray,
            LAMBDA ref : heap.recs[ref].drawn
                         /\ heap.recs[ref].row + heap.recs[ref].col = dimension - 1)

\* The rows-and-columns loop of checkForBingo, from index i on; both filters
\* of the array literal are evaluated before forEach flags anything.
RECURSIVE heapCheckRowsAndCols(_, _, _, _)
heapCheckRowsAndCols(heap, accumulatorSquares, allSquaresArray, i) ==
  IF i >= dimension THEN heap
  ELSE LET rowSquares == heapDrawnInRow(heap, allSquaresArray, i)
           colSquares == heapDrawnInCol(heap, allSquaresArray, i)
       IN  heapCheckRowsAndCols(
             heapCheckAndFlagBingo(
               heapCheckAndFlagBingo(heap, accumulatorSquares, rowSquares),
               accumulatorSquares, colSquares),
             accumulatorSquares, allSquaresArray, i + 1)

heapCheckDiagonals(heap, accumulatorSquares, allSquaresArray) ==
  LET diagonal     == heapDrawnInDiagonal(heap, allSquaresArray)
      antiDiagonal == heapDrawnInAntiDiagonal(heap, allSquaresArray)
  IN  heapCheckAndFlagBingo(
        heapCheckAndFlagBingo(heap, accumulatorSquares, diagonal),
        accumulatorSquares, antiDiagonal)

\* checkForBingo(tmpSquares): every write goes to the Map it is given.
heapCheckForBingo(heap, accumulatorSquares) ==
  LET allSquaresArray == MapValues(heap.maps[accumulatorSquares])
  IN  heapCheckDiagonals(
        heapCheckRowsAndCols(heap, accumulatorSquares, allSquaresArray, 0),
        accumulatorSquares, allSquaresArray)

\* draw() after it picked `number`: the heap it leaves, and the Map and Set
\* objects it hands to dispatch and setDrawHistory.
heapDraw(number) ==
  LET newSet         == heapNewSet(renderHeap, 1)
      tmpDrawHistory == newSet.ref
      added          == heapSetAdd(newSet.heap, tmpDrawHistory, number)
  IN  IF number \in DOMAIN added.maps[1]
        THEN LET randomSquare == added.maps[1][number]
                 newMap       == heapNewMap(added, 1)
                 tmpSquares   == newMap.ref
                 marked       == heapSpreadDrawn(newMap.heap, randomSquare)
                 stored       == heapMapSet(marked.heap, tmpSquares,
                                            added.recs[randomSquare].value, marked.ref)
             IN  [heap        |-> heapCheckForBingo(stored, tmpSquares),
                  squares     |-> tmpSquares,
                  drawHistory |-> tmpDrawHistory]
        ELSE [heap |-> added, squares |-> 1, drawHistory |-> tmpDrawHistory]

-----------------------------------------------------------------------------
(* Vocabulary of the properties *)

Keys == DOMAIN squares

Universe == 1..(dimension * dimension * 3)

Indices == 0..(dimension - 1)

KeysAt(r, c) == { k \in Keys : squares[k].row = r /\ squares[k].col = c }

\* The bingo lines of the board, each a set of <<row, col>> positions.
RowLine(i) == { <<i, c>> : c \in Indices }
ColLine(i) == { <<r, i>> : r \in Indices }
MainDiagonal == { <<i, i>> : i \in Indices }
AntiDiagonal == { <<i, (dimension - 1) - i>> : i \in Indices }
Lines == { RowLine(i) : i \in Indices } \cup { ColLine(i) : i \in Indices }
           \cup {MainDiagonal, AntiDiagonal}

KeysOn(line) == { k \in Keys : <<squares[k].row, squares[k].col>> \in line }

\* Every position of the line holds a square, and all squares on it are drawn.
FullyDrawn(line) ==
  /\ \A pos \in line : KeysAt(pos[1], pos[2]) # {}
  /\ \A k \in KeysOn(line) : squares[k].drawn

AllFlagged(line) == \A k \in KeysOn(line) : squares[k].inBingo

DrawnKeys == { k \in Keys : squares[k].drawn }
BingoKeys == { k \in Keys : squares[k].inBingo }

Exhausted == drawHistory = Universe

\* A step of draw(); every draw that changes the state records itself in
\* lastEvent, which is tested first because it is the cheaper conjunct.
DrawStep == lastEvent' = "draw" /\ draw

\* A draw that gets past the early return of draw().
SuccessfulDraw == DrawStep /\ Len(availableRange) > 0

\* A step of resetGame().
ResetStep == lastEvent' = "reset" /\ resetGame

\* Weak fairness of draw, WF_vars(draw), with ENABLED <<draw>>_vars written
\* out from the guard of draw(): a draw changes the state exactly when it
\* gets past the early return, that is, when availableRange is not empty.
DrawFairness == []<>(Len(availableRange) = 0) \/ []<><<draw>>_vars

\* One game in which the user keeps clicking Draw and never resets: only
\* draw steps, and a draw that can change the state is eventually made.
DrawsOnlySpec == Init /\ [][draw]_vars /\ DrawFairness

-----------------------------------------------------------------------------
(* Properties *)

\* C1: in every reachable state a square is flagged inBingo if and only if
\* at least one line through it (its row, its column, the main diagonal or
\* the anti-diagonal) has all of its squares drawn.
C1_InBingoIffOnFullLine ==
  \A k \in Keys :
    squares[k].inBingo <=>
      \E line \in Lines :
        /\ <<squares[k].row, squares[k].col>> \in line
        /\ FullyDrawn(line)

\* C1 witness: after draws on a 2x2 board one line is complete and flagged
\* while another square is drawn or undrawn but on no complete line.
C1_Witness ==
  /\ dimension = 2
  /\ lastEvent = "draw"
  /\ BingoKeys # {}
  /\ BingoKeys # Keys
  /\ \E line \in Lines : FullyDrawn(line) /\ AllFlagged(line)

\* C2: for every row index i, all squares of row i are flagged inBingo if
\* and only if all squares of row i are drawn.
C2_RowFlaggedIffRowDrawn ==
  \A i \in Indices :
    (\A k \in KeysOn(RowLine(i)) : squares[k].inBingo)
      <=> (\A k \in KeysOn(RowLine(i)) : squares[k].drawn)

\* C2 witness: exactly one row of a 2x2 board is drawn, and it is flagged.
C2_Witness ==
  /\ dimension = 2
  /\ \E i \in Indices :
       /\ DrawnKeys = KeysOn(RowLine(i))
       /\ BingoKeys = KeysOn(RowLine(i))
       /\ Cardinality(KeysOn(RowLine(i))) = 2

\* C3: across a draw step the drawn flag and the inBingo flag of every
\* square only go from false to true.
C3_FlagsMonotonicAcrossDraw ==
  [][DrawStep =>
       \A k \in Keys :
         /\ k \in DOMAIN squares'
         /\ squares[k].drawn => squares'[k].drawn
         /\ squares[k].inBingo => squares'[k].inBingo]_vars

\* C3 witness: a draw left at least three squares drawn and some flagged,
\* so earlier flags were carried across later draws.
C3_Witness ==
  /\ lastEvent = "draw"
  /\ Cardinality(DrawnKeys) >= 3
  /\ BingoKeys # {}

\* C4: every successful draw extends the draw history by exactly one value
\* of 1..3*d*d that was not in it before.
C4_DrawAddsOneNewNumber ==
  [][SuccessfulDraw =>
       \E v \in Universe :
         /\ v \notin drawHistory
         /\ drawHistory' = drawHistory \cup {v}
         /\ Cardinality(drawHistory') = Cardinality(drawHistory) + 1]_vars

\* C4 witness: several successful draws happened, on and off the board.
C4_Witness ==
  /\ lastEvent = "draw"
  /\ Cardinality(drawHistory) >= 3
  /\ drawHistory \cap Keys # {}
  /\ drawHistory \ Keys # {}

\* C5: once the draw history holds all 3*d*d numbers, a draw changes
\* neither the board nor the draw history.
C5_DrawAfterExhaustionIsNoOp ==
  [][(Exhausted /\ DrawStep) => UNCHANGED <<squares, drawHistory>>]_vars

\* C5 witness: the universe of a 2x2 board (12 numbers) is exhausted.
C5_Witness ==
  /\ dimension = 2
  /\ Exhausted
  /\ Cardinality(drawHistory) = 12
  /\ lastEvent = "draw"

\* C6: the board has exactly d*d squares and every grid position holds
\* exactly one square, initially and after every draw and reset.
C6_BoardShape ==
  /\ Cardinality(Keys) = dimension * dimension
  /\ \A r \in Indices : \A c \in Indices : Cardinality(KeysAt(r, c)) = 1
  /\ \A k \in Keys : squares[k].row \in Indices /\ squares[k].col \in Indices

\* C6 witness: a 2x2 board that has gone through a reset and then a draw
\* that hit the board.
C6_Witness ==
  /\ dimension = 2
  /\ lastEvent = "draw"
  /\ Cardinality(DrawnKeys) = 1
  /\ Cardinality(Keys) = 4

\* C7: each square of column c has a value in [c*d*3 + 1, c*d*3 + d*3] and
\* is keyed by its value, so the board values are pairwise distinct and
\* squares of different columns never share a value.
C7_ColumnRanges ==
  /\ \A k \in Keys :
       /\ squares[k].value = k
       /\ squares[k].value >= (squares[k].col * dimension * 3) + 1
       /\ squares[k].value <= (squares[k].col * dimension * 3) + (dimension * 3)
  /\ \A k \in Keys : \A j \in Keys :
       (k # j) => (squares[k].value # squares[j].value)
  /\ \A k \in Keys : \A j \in Keys :
       (squares[k].col # squares[j].col) => (squares[k].value # squares[j].value)

\* C7 witness: a freshly generated 2x2 board whose second column holds the
\* top value of its range.
C7_Witness ==
  /\ dimension = 2
  /\ lastEvent \in {"init", "reset"}
  /\ 12 \in Keys
  /\ squares[12].col = 1

\* C8: whenever all squares of the main diagonal are drawn they are all
\* flagged inBingo, and likewise for the anti-diagonal.
C8_DiagonalsFlagged ==
  /\ FullyDrawn(MainDiagonal) => AllFlagged(MainDiagonal)
  /\ FullyDrawn(AntiDiagonal) => AllFlagged(AntiDiagonal)

\* C8 witness: on a 2x2 board exactly the anti-diagonal is drawn and flagged.
C8_Witness ==
  /\ dimension = 2
  /\ DrawnKeys = KeysOn(AntiDiagonal)
  /\ FullyDrawn(AntiDiagonal)
  /\ BingoKeys = KeysOn(AntiDiagonal)

\* C9: a reset from any state yields, in one transition, a board with no
\* square drawn or inBingo and an empty draw history.
C9_ResetClearsGame ==
  [][ResetStep =>
       /\ drawHistory' = {}
       /\ \A k \in DOMAIN squares' :
            ~squares'[k].drawn /\ ~squares'[k].inBingo]_vars

\* C9 witness: the state right after a reset.
C9_Witness ==
  /\ lastEvent = "reset"
  /\ drawHistory = {}
  /\ DrawnKeys = {}

\* C10: a draw of a value that is not a key of the board adds the value to
\* the draw history and leaves the board unchanged; a draw of a value on the
\* board changes the drawn flag of that one square only.
C10_DrawFrame ==
  [][SuccessfulDraw =>
       \A v \in drawHistory' \ drawHistory :
         /\ v \notin Keys => squares' = squares
         /\ v \in Keys =>
              /\ DOMAIN squares' = Keys
              /\ ~squares[v].drawn /\ squares'[v].drawn
              /\ \A k \in Keys \ {v} : squares'[k].drawn = squares[k].drawn]_vars

\* C10 witness: the only draw so far picked a value that is not on the board.
C10_Witness ==
  /\ lastEvent = "draw"
  /\ Cardinality(drawHistory) = 1
  /\ drawHistory \cap Keys = {}
  /\ DrawnKeys = {}

\* C11: for dimension 1 the board is one square with value in {1,2,3} at
\* row 0, col 0; the draw that picks its value sets drawn and inBingo on it
\* in the same step, and after 3 successful draws of a game that has happened.
C11_DimensionOne ==
  /\ [](dimension = 1 =>
          /\ Cardinality(Keys) = 1
          /\ \A k \in Keys :
               /\ squares[k].value \in {1, 2, 3}
               /\ squares[k].row = 0 /\ squares[k].col = 0
               /\ squares[k].drawn <=> squares[k].inBingo
               /\ successfulDraws >= 3 => squares[k].drawn /\ squares[k].inBingo)
  /\ [][(dimension = 1 /\ SuccessfulDraw) =>
          \A v \in (drawHistory' \ drawHistory) \cap Keys :
            /\ ~squares[v].drawn /\ ~squares[v].inBingo
            /\ v \in DOMAIN squares'
            /\ squares'[v].drawn /\ squares'[v].inBingo]_vars

\* C11 witness: on a 1x1 board the third draw of the game is the one that
\* hit the square, which is now drawn and flagged.
C11_Witness ==
  /\ dimension = 1
  /\ lastEvent = "draw"
  /\ successfulDraws = 3
  /\ \A k \in Keys : squares[k].drawn /\ squares[k].inBingo

\* C12: in every reachable state a square of the board is drawn if and only
\* if its value is in the draw history.
C12_DrawnIffInHistory ==
  \A k \in Keys : squares[k].drawn <=> squares[k].value \in drawHistory

\* C12 witness: after a reset and further draws, some board values are in
\* the history (and drawn) and some are not, next to off-board numbers.
C12_Witness ==
  /\ dimension = 2
  /\ lastEvent = "draw"
  /\ DrawnKeys # {}
  /\ DrawnKeys # Keys
  /\ drawHistory \ Keys # {}
  /\ DrawnKeys = drawHistory \cap Keys

\* C13: no draw loses an update: after k successful draws since the last
\* reset the draw history has exactly k elements and every board value in
\* it is marked drawn, and every successful draw leaves a draw history
\* different from the one it started from, so the next draw starts elsewhere.
C13_NoLostUpdate ==
  /\ [](/\ Cardinality(drawHistory) = successfulDraws
        /\ \A v \in drawHistory \cap Keys : squares[v].drawn)
  /\ [][SuccessfulDraw =>
          /\ drawHistory' # drawHistory
          /\ drawHistory \subseteq drawHistory'
          /\ \A v \in drawHistory \cap Keys :
               v \in DOMAIN squares' /\ squares'[v].drawn]_vars

\* C13 witness: five successful draws into a game of dimension 2, at least
\* two of which hit the board.
C13_Witness ==
  /\ dimension = 2
  /\ lastEvent = "draw"
  /\ successfulDraws = 5
  /\ Cardinality(drawHistory \cap Keys) >= 2

AllDrawnAndFlagged == DrawnKeys = Keys /\ BingoKeys = Keys

\* C14: in a game where draws keep being issued and no reset is made, the
\* exhausted state is eventually reached and kept; it is reached after
\* exactly 3*d*d successful draws, and in it every square is drawn and
\* flagged inBingo.
C14_ExhaustionReached ==
  /\ [](Exhausted <=> successfulDraws = dimension * dimension * 3)
  /\ [](Exhausted => AllDrawnAndFlagged)
  /\ <>[](Exhausted /\ AllDrawnAndFlagged)

\* C14 witness: a game of dimension 2 is exhausted after 12 successful
\* draws, with all four squares drawn and flagged.
C14_Witness ==
  /\ dimension = 2
  /\ Exhausted
  /\ successfulDraws = 12
  /\ AllDrawnAndFlagged

\* C15: across a draw step the set of keys of the board is unchanged and
\* every square keeps its value, row and col, with its key equal to its
\* value; only drawn and inBingo may differ.
C15_DrawKeepsIdentity ==
  [][DrawStep =>
       /\ DOMAIN squares' = Keys
       /\ \A k \in Keys :
            /\ squares'[k].value = squares[k].value
            /\ squares'[k].row = squares[k].row
            /\ squares'[k].col = squares[k].col
            /\ squares'[k].value = k
            /\ DOMAIN squares'[k] = DOMAIN squares[k]]_vars

\* C15 witness: a draw on a 2x2 board completed a line, so the board went
\* through the copy in draw() and the rewrites in checkAndFlagBingo.
C15_Witness ==
  /\ dimension = 2
  /\ lastEvent = "draw"
  /\ Cardinality(BingoKeys) = 2
  /\ Cardinality(DrawnKeys) = 2
  /\ \A k \in Keys : squares[k].value = k

\* The Square objects the render's Map holds.
OldRecords(heap) == { heap.maps[1][k] : k \in DOMAIN heap.maps[1] }

\* C16: a draw is copy-on-write.  After it, the Map and Set objects of the
\* previous render still read as the old board and the old history (which
\* lacks the new number); the draw builds a new Set, and when the number is
\* on the board a new Map in which every changed square is a new record.
\* The objects the draw hands over read as the next state.
C16_DrawIsCopyOnWrite ==
  [][SuccessfulDraw =>
       \A v \in drawHistory' \ drawHistory :
         LET after == heapDraw(v)
             heap  == after.heap
         IN  /\ heapBoard(heap, 1) = squares
             /\ heap.sets[1] = drawHistory
             /\ v \notin heap.sets[1]
             /\ after.drawHistory # 1
             /\ heap.sets[after.drawHistory] = drawHistory'
             /\ heapBoard(heap, after.squares) = squares'
             /\ v \in Keys => after.squares # 1
             /\ \A k \in Keys :
                  heapBoard(heap, after.squares)[k] # squares[k]
                    => heap.maps[after.squares][k] \notin OldRecords(heap)]_vars

\* C16 witness: a draw on a 2x2 board has just marked a third square and
\* flagged squares, with off-board numbers in the history as well.
C16_Witness ==
  /\ dimension = 2
  /\ lastEvent = "draw"
  /\ Cardinality(DrawnKeys) = 3
  /\ Cardinality(BingoKeys) = 3
  /\ drawHistory \ Keys # {}

====
